---- MODULE Spec2Model ----
(***************************************************************************)
(* Model of qiskit_quantum_knn/qknn/quantum_algorithm.py: the abstract     *)
(* base class QuantumAlgorithm.  One algorithm instance is modelled,       *)
(* together with the heap of QuantumInstance objects it can point to.      *)
(* A QuantumInstance is a mutable object with an identity (its index in    *)
(* the heap), a backend and a configuration.                               *)
(***************************************************************************)
EXTENDS Integers, Sequences, FiniteSets, TLC

\* ------------------------------------------------------------------ bounds
\* Largest number of QuantumInstance objects ever allocated.
MaxObjs == 2
\* Largest number of QuantumInstance objects the caller built on its own
\* before constructing the algorithm.
MaxExt == 1

\* ------------------------------------------------------------------ values
\* Python's None as a reference: no object of the heap has this index.
None == 0

Backends == {"b1", "b2"}
OptNames == {"optA", "optB"}
\* The values a caller gives an option; 0 is the value an option has by default.
OptVals == {1}
Results == {"r1", "r2"}

\* **kwargs: a mapping from some of the option names to values.
Kwargs == UNION {[S -> OptVals] : S \in SUBSET OptNames}
EmptyKw == <<>>

\* The configuration of QuantumInstance(backend) before any set_config.
DefaultConfig == [k \in OptNames |-> 0]
Configs == [OptNames -> {0} \cup OptVals]
Objects == [backend : Backends, config : Configs]

\* The argument of an operation: nothing (None), a raw Backend, or a
\* QuantumInstance (a reference into the heap).
NoArg == [kind |-> "none", b |-> "-", c |-> None]
BackendArg(b) == [kind |-> "backend", b |-> b, c |-> None]
ContextArg(c) == [kind |-> "context", b |-> "-", c |-> c]

VARIABLES heap, quantum_instance, pc, ctor, last, lastMut

vars == <<heap, quantum_instance, pc, ctor, last, lastMut>>

\* ------------------------------------------------- the collaborator's calls
\* QuantumInstance(backend): a new object with the default configuration.
QuantumInstance(b) == [backend |-> b, config |-> DefaultConfig]

\* obj.set_config(**kwargs): every given option is set, the others stay.
set_config(obj, kw) ==
  [obj EXCEPT !.config = [k \in OptNames |-> IF k \in DOMAIN kw THEN kw[k] ELSE @[k]]]

\* isinstance(x, Backend)
IsBackend(arg) == arg.kind = "backend"

\* ------------------------------------------------------ the class's methods
\* quantum_instance.setter: a raw backend is wrapped into a new
\* QuantumInstance; anything else (None included) is stored as it is.
setter_keeps_existing(h, qi, arg) ==
  IF qi # None THEN [heap |-> h, qi |-> qi]
  ELSE IF IsBackend(arg)
       THEN [heap |-> Append(h, QuantumInstance(arg.b)), qi |-> Len(h) + 1]
       ELSE [heap |-> h, qi |-> arg.c]

quantum_instance_setter(h, qi, arg) ==
  IF IsBackend(arg)
  THEN [heap |-> Append(h, QuantumInstance(arg.b)), qi |-> Len(h) + 1]
  ELSE [heap |-> h, qi |-> arg.c]

\* set_backend(backend, **kwargs)
set_backend_drops_kwargs(h, qi, b, kw) ==
  quantum_instance_setter(Append(h, QuantumInstance(b)), qi, ContextArg(Len(h) + 1))

set_backend(h, qi, b, kw) ==
  LET s == quantum_instance_setter(Append(h, QuantumInstance(b)), qi,
                                   ContextArg(Len(h) + 1))
  IN  [heap |-> [s.heap EXCEPT ![s.qi] = set_config(@, kw)], qi |-> s.qi]

\* backend.setter: set_backend(backend) with no options.
backend_setter_keeps_config(h, qi, b) ==
  LET s == set_backend(h, qi, b, EmptyKw)
  IN  IF qi = None THEN s
      ELSE [heap |-> [s.heap EXCEPT ![s.qi].config = h[qi].config], qi |-> s.qi]

backend_setter_in_place(h, qi, b) ==
  IF qi = None THEN set_backend(h, qi, b, EmptyKw)
  ELSE [heap |-> [h EXCEPT ![qi].backend = b], qi |-> qi]

backend_setter(h, qi, b) == set_backend(h, qi, b, EmptyKw)

\* backend (getter): self.quantum_instance.backend
backend_getter(h, qi) == h[qi].backend

\* run, line 43: the test that raises ValueError.
MissingContext_inverted(arg, qi) == arg.kind = "none" /\ qi # None
MissingContext_or(arg, qi) == arg.kind = "none" \/ qi = None
MissingContext_never(arg, qi) == FALSE

MissingContext(arg, qi) == arg.kind = "none" /\ qi = None

\* run, lines 46-50: what is stored before _run is called.
run_store_applies_options(h, qi, arg, kw) ==
  IF IsBackend(arg) THEN set_backend(h, qi, arg.b, kw)
  ELSE IF arg.kind # "none"
       THEN LET s == quantum_instance_setter(h, qi, arg)
            IN  [heap |-> [s.heap EXCEPT ![s.qi] = set_config(@, kw)], qi |-> s.qi]
       ELSE [heap |-> h, qi |-> qi]

run_store_unguarded(h, qi, arg, kw) ==
  IF IsBackend(arg) THEN set_backend(h, qi, arg.b, kw)
  ELSE quantum_instance_setter(h, qi, arg)

run_store(h, qi, arg, kw) ==
  IF IsBackend(arg) THEN set_backend(h, qi, arg.b, kw)
  ELSE IF arg.kind # "none" THEN quantum_instance_setter(h, qi, arg)
       ELSE [heap |-> h, qi |-> qi]

\* run, line 52: run returns what _run returned.
run_result(r) == r

\* __init__, line 27: `if quantum_instance:`; a Backend and a QuantumInstance
\* are true, None is false.
Truthy(arg) == arg.kind # "none"

\* __init__
init(h, arg) ==
  IF Truthy(arg) THEN quantum_instance_setter(h, None, arg)
  ELSE [heap |-> h, qi |-> None]

\* ------------------------------------------------------------- bookkeeping
\* The record of the call in progress or last completed.
\* op, arg, kw: the operation and its arguments; pre: the stored context when
\* it was called; first: it is the first call after construction; outcome:
\* "ok", the error raised, or "pending" while _run runs; calls: how often it
\* has called _run; sub: what _run returned; ret, retC: what it returned (a
\* value, a reference).
Call(op, arg, kw, pre, first, outcome, calls, ret, retC) ==
  [op |-> op, arg |-> arg, kw |-> kw, pre |-> pre, first |-> first,
   outcome |-> outcome, calls |-> calls, sub |-> "None", ret |-> ret,
   retC |-> retC]

\* The most recent change of the stored context an argument asked for.
Mutation(arg, old) == IF arg.kind = "none" THEN old ELSE arg

IsFirst == last.op = "init"

\* The heaps a caller can have built before constructing the algorithm.
ExtHeaps == UNION {[1..n -> Objects] : n \in 0..MaxExt}

Args(h) ==
  {NoArg} \cup {BackendArg(b) : b \in Backends} \cup {ContextArg(c) : c \in 1..Len(h)}

\* The state: heap is the sequence of QuantumInstance objects allocated so
\* far (a reference is an index into it); quantum_instance is
\* self._quantum_instance; pc tells whether _run is running; ctor is the kind
\* of argument __init__ was given; last is the call in progress or last
\* completed; lastMut is the argument of the most recent mutation.
TypeOK ==
  /\ heap \in UNION {[1..n -> Objects] : n \in 0..MaxObjs}
  /\ quantum_instance \in 0..Len(heap)
  /\ pc \in {"idle", "in_run"}
  /\ ctor \in {"none", "backend", "context"}
  /\ last.op \in {"init", "run", "get_quantum_instance", "set_quantum_instance",
                  "set_backend", "get_backend", "backend_setter"}
  /\ last.arg \in Args(heap) /\ last.kw \in Kwargs
  /\ last.pre \in 0..Len(heap) /\ last.first \in BOOLEAN
  /\ last.outcome \in {"ok", "pending", "ValueError", "AttributeError", "RunError"}
  /\ last.calls \in {0, 1}
  /\ last.sub \in Results \cup {"None"}
  /\ last.ret \in Results \cup Backends \cup {"None"}
  /\ last.retC \in 0..Len(heap)
  /\ lastMut \in Args(heap)
  /\ (pc = "in_run") = (last.outcome = "pending")

\* ------------------------------------------------------------------- Init
Init ==
  \E h \in ExtHeaps : \E arg \in Args(h) :
    LET s == init(h, arg) IN
    /\ heap = s.heap
    /\ quantum_instance = s.qi
    /\ pc = "idle"
    /\ ctor = arg.kind
    /\ last = Call("init", arg, EmptyKw, None, FALSE, "ok", 0, "None", None)
    /\ lastMut = arg

\* ---------------------------------------------------------------- actions
\* run(quantum_instance=arg, **kw) up to the call of _run.
run(arg, kw) ==
  /\ pc = "idle"
  /\ IsBackend(arg) => Len(heap) < MaxObjs
  /\ IF MissingContext(arg, quantum_instance)
     THEN /\ last' = Call("run", arg, kw, quantum_instance, IsFirst,
                          "ValueError", 0, "None", None)
          /\ UNCHANGED <<heap, quantum_instance, pc, ctor, lastMut>>
     ELSE LET s == run_store(heap, quantum_instance, arg, kw) IN
          /\ heap' = s.heap
          /\ quantum_instance' = s.qi
          /\ pc' = "in_run"
          /\ last' = Call("run", arg, kw, quantum_instance, IsFirst,
                          "pending", 1, "None", None)
          /\ lastMut' = Mutation(arg, lastMut)
          /\ UNCHANGED ctor

\* _run returns r and run returns it.
run_returns(r) ==
  /\ pc = "in_run"
  /\ pc' = "idle"
  /\ last' = [last EXCEPT !.outcome = "ok", !.sub = r, !.ret = run_result(r)]
  /\ UNCHANGED <<heap, quantum_instance, ctor, lastMut>>

\* _run raises (NotImplementedError or a failure of the subclass); run
\* lets it through.
run_raises ==
  /\ pc = "in_run"
  /\ pc' = "idle"
  /\ last' = [last EXCEPT !.outcome = "RunError"]
  /\ UNCHANGED <<heap, quantum_instance, ctor, lastMut>>

\* x = alg.quantum_instance
get_quantum_instance ==
  /\ pc = "idle"
  /\ last' = Call("get_quantum_instance", NoArg, EmptyKw, quantum_instance,
                  IsFirst, "ok", 0, "None", quantum_instance)
  /\ UNCHANGED <<heap, quantum_instance, pc, ctor, lastMut>>

\* alg.quantum_instance = arg
set_quantum_instance(arg) ==
  /\ pc = "idle"
  /\ IsBackend(arg) => Len(heap) < MaxObjs
  /\ LET s == quantum_instance_setter(heap, quantum_instance, arg) IN
     /\ heap' = s.heap
     /\ quantum_instance' = s.qi
  /\ last' = Call("set_quantum_instance", arg, EmptyKw, quantum_instance,
                  IsFirst, "ok", 0, "None", None)
  /\ lastMut' = arg
  /\ UNCHANGED <<pc, ctor>>

\* alg.set_backend(b, **kw)
call_set_backend(b, kw) ==
  /\ pc = "idle"
  /\ Len(heap) < MaxObjs
  /\ LET s == set_backend(heap, quantum_instance, b, kw) IN
     /\ heap' = s.heap
     /\ quantum_instance' = s.qi
  /\ last' = Call("set_backend", BackendArg(b), kw, quantum_instance,
                  IsFirst, "ok", 0, "None", None)
  /\ lastMut' = BackendArg(b)
  /\ UNCHANGED <<pc, ctor>>

\* x = alg.backend
get_backend ==
  /\ pc = "idle"
  /\ IF quantum_instance = None
     THEN last' = Call("get_backend", NoArg, EmptyKw, quantum_instance,
                       IsFirst, "AttributeError", 0, "None", None)
     ELSE last' = Call("get_backend", NoArg, EmptyKw, quantum_instance,
                       IsFirst, "ok", 0,
                       backend_getter(heap, quantum_instance), None)
  /\ UNCHANGED <<heap, quantum_instance, pc, ctor, lastMut>>

\* alg.backend = b
set_backend_property(b) ==
  /\ pc = "idle"
  /\ Len(heap) < MaxObjs
  /\ LET s == backend_setter(heap, quantum_instance, b) IN
     /\ heap' = s.heap
     /\ quantum_instance' = s.qi
  /\ last' = Call("backend_setter", BackendArg(b), EmptyKw, quantum_instance,
                  IsFirst, "ok", 0, "None", None)
  /\ lastMut' = BackendArg(b)
  /\ UNCHANGED <<pc, ctor>>

Next ==
  \/ \E arg \in Args(heap) : \E kw \in Kwargs : run(arg, kw)
  \/ \E r \in Results : run_returns(r)
  \/ run_raises
  \/ get_quantum_instance
  \/ \E arg \in Args(heap) : set_quantum_instance(arg)
  \/ \E b \in Backends : \E kw \in Kwargs : call_set_backend(b, kw)
  \/ get_backend
  \/ \E b \in Backends : set_backend_property(b)

Spec == Init /\ [][Next]_vars

\* ----------------------------------------------------------------- claims
\* C1: a run with no context argument on an instance whose stored context is
\* absent fails with ValueError whatever the options, does not call _run,
\* and leaves the stored context absent.
C1_MissingContextFails ==
  (last.op = "run" /\ last.arg = NoArg /\ last.pre = None) =>
    /\ last.outcome = "ValueError"
    /\ last.calls = 0
    /\ pc = "idle"
    /\ quantum_instance = None

C1_Witness ==
  /\ last.op = "run" /\ last.arg = NoArg /\ last.pre = None
  /\ DOMAIN last.kw = OptNames
  /\ last.outcome = "ValueError"

\* C2: when the instance was given a backend or a context at construction,
\* the run with no argument that follows does not raise ValueError, calls
\* _run exactly once, and, when _run returns, returns what _run returned.
C2_RunAfterConstruction ==
  (last.op = "run" /\ last.first /\ last.arg = NoArg /\ ctor # "none") =>
    /\ last.outcome # "ValueError"
    /\ last.calls = 1
    /\ pc = "idle" => last.outcome \in {"ok", "RunError"}
    /\ last.outcome = "ok" => (last.sub \in Results /\ last.ret = last.sub)

C2_Witness ==
  /\ last.op = "run" /\ last.first /\ last.arg = NoArg /\ ctor = "backend"
  /\ pc = "idle" /\ last.outcome = "ok" /\ last.ret = "r2"

\* C3: during a run given a full context, from the call of run to its end,
\* the stored context is the given object itself, no object is created and
\* no object is changed, whatever the options.
C3_ContextStoredAsIs ==
  [][ /\ (pc = "idle" /\ pc' = "in_run" /\ last'.arg.kind = "context") =>
           (quantum_instance' = last'.arg.c /\ heap' = heap)
      /\ (pc = "in_run" /\ last.arg.kind = "context") =>
           (quantum_instance' = last.arg.c /\ heap' = heap) ]_vars

C3_Witness ==
  /\ pc = "idle" /\ last.op = "run" /\ last.arg.kind = "context"
  /\ last.outcome = "ok"
  /\ last.pre # None /\ last.pre # quantum_instance
  /\ \E k \in DOMAIN last.kw : heap[quantum_instance].config[k] # last.kw[k]

\* C4: a run given a raw backend B and options O reaches _run with a newly
\* created context stored, whose backend is B and whose configuration has
\* every option of O; every object that existed before, the previously
\* stored context included, is left as it was.
C4_BackendWrapped ==
  [][ (pc = "idle" /\ pc' = "in_run" /\ last'.arg.kind = "backend") =>
        /\ Len(heap') = Len(heap) + 1
        /\ quantum_instance' = Len(heap')
        /\ heap'[quantum_instance'].backend = last'.arg.b
        /\ \A k \in DOMAIN last'.kw :
             heap'[quantum_instance'].config[k] = last'.kw[k]
        /\ \A i \in 1..Len(heap) : heap'[i] = heap[i] ]_vars

C4_Witness ==
  /\ pc = "in_run" /\ last.arg.kind = "backend"
  /\ DOMAIN last.kw = OptNames
  /\ last.pre # None
  /\ heap[last.pre].config = DefaultConfig
  /\ heap[quantum_instance].backend # heap[last.pre].backend

\* C5: after the backend setter was given B, the stored context has backend
\* B and the default configuration, whatever was stored before.
C5_BackendSetterDefault ==
  last.op = "backend_setter" =>
    /\ quantum_instance # None
    /\ heap[quantum_instance].backend = last.arg.b
    /\ heap[quantum_instance].config = DefaultConfig

C5_Witness ==
  /\ last.op = "backend_setter"
  /\ last.pre # None
  /\ heap[last.pre].config # DefaultConfig

\* C6 as stated: after the backend setter was given B on an instance whose
\* stored context carried options O, the stored context has backend B and
\* still carries O.
C6_KeepsOptions ==
  (last.op = "backend_setter" /\ last.pre # None) =>
    /\ heap[quantum_instance].backend = last.arg.b
    /\ heap[quantum_instance].config = heap[last.pre].config

\* C6 amended: the backend setter stores a newly created context with
\* backend B and the default configuration and leaves every object that
\* existed before, the previously stored context with its options O
\* included, as it was.
C6_ReplacesContext ==
  [][ last'.op = "backend_setter" =>
        /\ Len(heap') = Len(heap) + 1
        /\ quantum_instance' = Len(heap')
        /\ heap'[quantum_instance'] = QuantumInstance(last'.arg.b)
        /\ \A i \in 1..Len(heap) : heap'[i] = heap[i] ]_vars

C6_Witness ==
  /\ last.op = "backend_setter"
  /\ last.pre # None /\ last.pre # quantum_instance
  /\ heap[last.pre].config # DefaultConfig
  /\ heap[last.pre].backend # last.arg.b
  /\ heap[quantum_instance].config = DefaultConfig

\* C7: while a context is stored, the backend accessor gives the backend of
\* the most recent mutation: the backend given, or the backend of the
\* context given.
C7_Expected ==
  IF lastMut.kind = "backend" THEN lastMut.b ELSE heap[lastMut.c].backend

C7_BackendReflectsLastMutation ==
  quantum_instance # None =>
    /\ lastMut.kind # "none"
    /\ backend_getter(heap, quantum_instance) = C7_Expected
    /\ (last.op = "get_backend") =>
         (last.outcome = "ok" /\ last.ret = C7_Expected)

C7_Witness ==
  /\ last.op = "get_backend" /\ last.outcome = "ok"
  /\ lastMut.kind = "context"
  /\ \E i \in 1..Len(heap) : heap[i].backend # last.ret

\* C8: whenever _run is running, a context is stored, and it was stored
\* before the call or the call's argument put it there.
C8_ContextAtRun ==
  pc = "in_run" =>
    /\ quantum_instance # None
    /\ last.pre # None \/ last.arg.kind # "none"

C8_Witness ==
  pc = "in_run" /\ last.pre = None /\ last.arg.kind = "context"

\* C9 as stated: the context getter, the context setter, set_backend, the
\* backend getter and the backend setter never raise.
C9_OnlyRunFails ==
  last.op \in {"get_quantum_instance", "set_quantum_instance", "set_backend",
               "get_backend", "backend_setter"} => last.outcome = "ok"

\* C10: a stored context becomes absent only by the context setter given
\* None; a run with no argument leaves the stored context and every object
\* as they are, whether _run returns or raises.
C10_ContextStays ==
  [][ /\ (quantum_instance # None /\ quantum_instance' = None) =>
           (last'.op = "set_quantum_instance" /\ last'.arg = NoArg)
      /\ (last'.op = "run" /\ last'.arg = NoArg) =>
           (quantum_instance' = quantum_instance /\ heap' = heap) ]_vars

C10_Witness ==
  /\ last.op = "run" /\ last.arg = NoArg /\ last.outcome = "RunError"
  /\ quantum_instance # None /\ quantum_instance = last.pre

====
